---- MODULE Spec2Model ----
(***************************************************************************)
(* A model of the two scripts of the repository.                          *)
(*                                                                         *)
(*   scan_bubbles.py  scans bubbles/<YYYY-MM-DDTHH-MM-SS>/config.json,    *)
(*                    builds one record per accepted folder, computes     *)
(*                    the timeline positions and writes bubbles.json      *)
(*   start_server.py  binds port 8000, opens the browser and serves       *)
(*                    until it is interrupted                             *)
(*                                                                         *)
(* Text the code inspects character by character (folder names, the       *)
(* parsed date) is a sequence of Unicode code points, so that Python's    *)
(* string order is the lexicographic order of the sequences.  Text the    *)
(* code only copies or concatenates (titles, file names) is a string.     *)
(* print() is a log that always succeeds.  The floats of                  *)
(* calculate_positions are exact fractions num/den; float rounding is     *)
(* monotone and exact at 0 and 1, which is all the order and end point    *)
(* properties need.                                                        *)
(***************************************************************************)
EXTENDS Integers, Sequences, FiniteSets, TLC

VARIABLES
    dirExists,   \* os.path.exists("bubbles")
    fs,          \* folder name -> what the folder holds (config.json, files)
    outFile,     \* bubbles.json
    pc,          \* position of scan_bubbles.py's main()
    folders,     \* scan_bubbles_folder: the sorted list of folder names
    idx,         \* loop index (1-based) of the running for loop
    bubbles,     \* the list of records
    log,         \* what scan_bubbles.py printed
    spc,         \* position of start_server()
    platform,    \* operating system the server runs on
    sock,        \* the listening socket: "none", "open", "closed"
    slog,        \* what start_server.py printed
    bindError,   \* why TCPServer(("", PORT), Handler) raised OSError, or "none"
    served,      \* requests handled by serve_forever
    interrupts   \* KeyboardInterrupts delivered so far

scanVars == <<dirExists, fs, outFile, pc, folders, idx, bubbles, log>>
serverVars == <<spc, platform, sock, slog, bindError, served, interrupts>>
vars == <<dirExists, fs, outFile, pc, folders, idx, bubbles, log,
          spc, platform, sock, slog, bindError, served, interrupts>>

\* ------------------------------------------------------------------ bounds

MaxFolders == 3

MaxBubbles == 14

MaxRequests == 4

\* ------------------------------------------------------- small arithmetic

Min(S) == CHOOSE x \in S : \A y \in S : x <= y

Max2(a, b) == IF a >= b THEN a ELSE b

\* --------------------------------------------------------------- strings

\* Python compares str values code point by code point; a proper prefix is
\* smaller.
StrLess(a, b) ==
    \E k \in 1..Len(b) :
        /\ \A j \in 1..(k - 1) : j <= Len(a) /\ a[j] = b[j]
        /\ (k > Len(a) \/ a[k] < b[k])

RECURSIVE SortedSeq(_)
SortedSeq(S) ==
    IF S = {} THEN <<>>
    ELSE LET m == CHOOSE x \in S : \A y \in S \ {x} : StrLess(x, y)
         IN <<m>> \o SortedSeq(S \ {m})

RECURSIVE DescendingSeq(_)
DescendingSeq(S) ==
    IF S = {} THEN <<>>
    ELSE LET m == CHOOSE x \in S : \A y \in S \ {x} : StrLess(y, x)
         IN <<m>> \o DescendingSeq(S \ {m})

\* folders.sort(reverse=True)
SortFoldersDescending(S) == DescendingSeq(S)

\* folders = [...listdir...]; folders.sort()
SortFolders(S) == SortedSeq(S)

\* \d of a str pattern matches every Unicode decimal digit; the model knows
\* the ASCII digits (48..57) and the Arabic-Indic digits (1632..1641).
IsDigit(c) == c \in (48..57) \cup (1632..1641)

\* int() of one decimal digit
DigitVal(c) == IF c \in 48..57 THEN c - 48 ELSE c - 1632

DigitPositions == {1, 2, 3, 4, 6, 7, 9, 10, 12, 13, 15, 16, 18, 19}

\* re.match(r'^\d{4}-\d{2}-\d{2}T\d{2}-\d{2}-\d{2}$', folder_name); $ also
\* matches before one trailing newline (10).
MatchesFormat(name) ==
    /\ Len(name) \in {19, 20}
    /\ (Len(name) = 20 => name[20] = 10)
    /\ \A p \in DigitPositions : IsDigit(name[p])
    /\ name[5] = 45 /\ name[8] = 45 /\ name[11] = 84
    /\ name[14] = 45 /\ name[17] = 45

\* folder_name.replace('T', ' ').replace('-', '/')
date_str(name) ==
    [i \in 1..Len(name) |->
        IF name[i] = 84 THEN 32 ELSE IF name[i] = 45 THEN 47 ELSE name[i]]

\* ------------------------------------------------------ datetime.strptime

\* The regular expressions strptime builds for the directives, applied to
\* a two character field that a separator follows (so the one digit
\* alternatives cannot match): %m 1[0-2]|0[1-9]|[1-9]
MonthRe(a, b) == (a = 49 /\ b \in 48..50) \/ (a = 48 /\ b \in 49..57)

\* %d 3[0-1]|[1-2]\d|0[1-9]|[1-9]
DayRe(a, b) ==
    \/ (a = 51 /\ b \in 48..49)
    \/ (a \in 49..50 /\ IsDigit(b))
    \/ (a = 48 /\ b \in 49..57)

\* %H 2[0-3]|[0-1]\d|\d
HourRe(a, b) == (a = 50 /\ b \in 48..51) \/ (a \in 48..49 /\ IsDigit(b))

\* %M [0-5]\d|\d
MinuteRe(a, b) == a \in 48..53 /\ IsDigit(b)

\* %S 6[0-1]|[0-5]\d|\d
SecondRe(a, b) == (a = 54 /\ b \in 48..49) \/ (a \in 48..53 /\ IsDigit(b))

\* The format '%Y/%m/%d %H/%M/%S' matches the whole of s.
StrptimeMatches(s) ==
    /\ Len(s) = 19
    /\ \A p \in 1..4 : IsDigit(s[p])
    /\ s[5] = 47 /\ MonthRe(s[6], s[7])
    /\ s[8] = 47 /\ DayRe(s[9], s[10])
    /\ s[11] = 32 /\ HourRe(s[12], s[13])
    /\ s[14] = 47 /\ MinuteRe(s[15], s[16])
    /\ s[17] = 47 /\ SecondRe(s[18], s[19])

Num2(a, b) == 10 * DigitVal(a) + DigitVal(b)

\* The fields read as '%Y/%d/%m %H/%M/%S': day and month exchanged.
StrptimeFieldsSwapped(s) ==
    [year   |-> 1000 * DigitVal(s[1]) + 100 * DigitVal(s[2])
                + 10 * DigitVal(s[3]) + DigitVal(s[4]),
     month  |-> Num2(s[9], s[10]),
     day    |-> Num2(s[6], s[7]),
     hour   |-> Num2(s[12], s[13]),
     minute |-> Num2(s[15], s[16]),
     second |-> Num2(s[18], s[19])]

StrptimeFields(s) ==
    [year   |-> 1000 * DigitVal(s[1]) + 100 * DigitVal(s[2])
                + 10 * DigitVal(s[3]) + DigitVal(s[4]),
     month  |-> Num2(s[6], s[7]),
     day    |-> Num2(s[9], s[10]),
     hour   |-> Num2(s[12], s[13]),
     minute |-> Num2(s[15], s[16]),
     second |-> Num2(s[18], s[19])]

IsLeap(y) == (y % 4 = 0 /\ y % 100 # 0) \/ y % 400 = 0

DaysInMonth(y, m) ==
    IF m = 2 THEN (IF IsLeap(y) THEN 29 ELSE 28)
    ELSE IF m \in {4, 6, 9, 11} THEN 30 ELSE 31

\* datetime(year, month, day, hour, minute, second) raises ValueError for a
\* year 0, a day the month does not have, and a second of 60 or 61.
DatetimeOK(d) ==
    /\ d.year >= 1
    /\ d.day <= DaysInMonth(d.year, d.month)
    /\ d.second <= 59

\* datetime.strptime(date_str, '%Y/%m/%d %H/%M/%S') does not raise ValueError
StrptimeOK(s) == StrptimeMatches(s) /\ DatetimeOK(StrptimeFields(s))

Pad2(n) == <<48 + (n \div 10), 48 + (n % 10)>>

Pad4(n) == <<48 + (n \div 1000), 48 + ((n \div 100) % 10),
             48 + ((n \div 10) % 10), 48 + (n % 10)>>

\* parsed_date.isoformat(): YYYY-MM-DDTHH:MM:SS
Isoformat(d) ==
    Pad4(d.year) \o <<45>> \o Pad2(d.month) \o <<45>> \o Pad2(d.day) \o <<84>>
    \o Pad2(d.hour) \o <<58>> \o Pad2(d.minute) \o <<58>> \o Pad2(d.second)

\* ------------------------------------------------------------ JSON values

PyStr(s) == [t |-> "str", v |-> s]

PyTrue == [t |-> "bool", v |-> "true"]

PyNum(s) == [t |-> "num", v |-> s]

PyNone == [t |-> "null", v |-> "null"]

\* bool(x) of a JSON value
Truthy(x) ==
    CASE x.t = "str" -> x.v # ""
      [] x.t = "bool" -> x.v = "true"
      [] x.t = "num" -> x.v # "0"
      [] OTHER -> FALSE

NoFields == [k \in {} |-> PyNone]

\* What json.load(config.json) gives: an object, an array of strings, a
\* number; or the file is missing, or is not JSON.
CfgAbsent == [kind |-> "absent", items |-> {}, fields |-> NoFields]

CfgUndecodable == [kind |-> "undecodable", items |-> {}, fields |-> NoFields]

CfgScalar == [kind |-> "scalar", items |-> {}, fields |-> NoFields]

CfgArray(items) == [kind |-> "array", items |-> items, fields |-> NoFields]

CfgObject(fields) == [kind |-> "object", items |-> {}, fields |-> fields]

\* field in config (config an object or an array)
Contains(cfg, key) ==
    IF cfg.kind = "object" THEN key \in DOMAIN cfg.fields ELSE key \in cfg.items

\* config.get(key, default) of an object
GetOr(cfg, key, default) ==
    IF key \in DOMAIN cfg.fields THEN cfg.fields[key] ELSE default

\* The list of required fields without its last entry.
required_fields_short == {"title", "description"}

required_fields == {"title", "description", "has_photo"}

\* all(field in config for field in required_fields)
HasRequired(cfg) == \A f \in required_fields : Contains(cfg, f)

\* ------------------------------------------------------- photo resolution

photo_extensions ==
    <<".jpg", ".JPG", ".jpeg", ".JPEG", ".png", ".PNG", ".gif", ".GIF",
      ".webp", ".WEBP">>

possible_names == <<"photo", "image", "img", "picture", "pic">>

\* The inner loop: the first name (in list order) whose file exists with
\* this extension; "" when there is none.
FirstNameWith(files, ext) ==
    LET hits == {i \in 1..Len(possible_names) : (possible_names[i] \o ext) \in files}
    IN IF hits = {} THEN "" ELSE possible_names[Min(hits)] \o ext

\* The two loops exchanged: names outside, extensions inside.
found_photo_name_major(files) ==
    LET hits == {<<n, e>> \in (1..Len(possible_names)) \X (1..Len(photo_extensions)) :
                     (possible_names[n] \o photo_extensions[e]) \in files}
        first == CHOOSE h \in hits : \A g \in hits :
                     h[1] < g[1] \/ (h[1] = g[1] /\ h[2] <= g[2])
    IN IF hits = {} THEN ""
       ELSE possible_names[first[1]] \o photo_extensions[first[2]]

\* The outer loop: the first extension (in list order) the inner loop finds
\* a file for; "" stands for found_photo = None.
found_photo(files) ==
    LET hits == {e \in 1..Len(photo_extensions) :
                     FirstNameWith(files, photo_extensions[e]) # ""}
    IN IF hits = {} THEN "" ELSE FirstNameWith(files, photo_extensions[Min(hits)])

PhotoNone == [t |-> "null", dir |-> "", folder |-> <<>>, file |-> ""]

\* f"bubbles/{folder_name}/{file}"
PhotoPath(name, file) ==
    [t |-> "str", dir |-> "bubbles", folder |-> name, file |-> file]

Msg(level, kind, name) == [level |-> level, kind |-> kind, folder |-> name]

\* config.get('has_photo') == 'True'
HasPhotoFlag(cfg) == GetOr(cfg, "has_photo", PyNone) = PyStr("True")

\* Lines 65-98: the photo path, what is printed, and whether os.path.join
\* raised TypeError (a photo value that is truthy and no string).
ResolvePhoto(name, c) ==
    LET named == GetOr(c.config, "photo", PyNone)
        found == found_photo(c.files)
    IN  IF ~HasPhotoFlag(c.config)
        THEN [raised |-> FALSE, photo |-> PhotoNone, msgs |-> <<>>]
        ELSE IF Truthy(named)
        THEN IF named.t # "str"
             THEN [raised |-> TRUE, photo |-> PhotoNone, msgs |-> <<>>]
             ELSE [raised |-> FALSE, photo |-> PhotoPath(name, named.v),
                   msgs |-> IF named.v \in c.files THEN <<>>
                            ELSE <<Msg("WARNING", "photo not found", name)>>]
        ELSE IF found # ""
        THEN [raised |-> FALSE, photo |-> PhotoPath(name, found),
              msgs |-> <<Msg("INFO", "auto-detected photo", name)>>]
        ELSE [raised |-> FALSE, photo |-> PhotoNone,
              msgs |-> <<Msg("WARNING", "no photo found", name)>>]

\* ---------------------------------------------------------- one iteration

X0 == [num |-> 0, den |-> 1]

\* f"bubble-{len(bubbles)}"
BubbleId(n) == "bubble-" \o ToString(n)

\* bubble_data, lines 101-114
bubble_data(name, cfg, photo, n) ==
    [id          |-> BubbleId(n),
     title       |-> cfg.fields["title"],
     description |-> cfg.fields["description"],
     location    |-> GetOr(cfg, "location", PyStr("")),
     photo       |-> photo,
     date        |-> name,
     folderName  |-> name,
     hasPhoto    |-> HasPhotoFlag(cfg),
     rawDate     |-> Isoformat(StrptimeFields(date_str(name))),
     size        |-> 150,
     x           |-> X0,
     y           |-> 50]

Skipped(level, kind, name) == [recs |-> <<>>, msgs |-> <<Msg(level, kind, name)>>]

\* The body of the for loop, lines 33-122, for the folder `name` holding c,
\* with n records collected so far: the records to append (none or one) and
\* the lines printed.
ProcessFolder(name, c, n) ==
    IF ~MatchesFormat(name) THEN Skipped("WARNING", "invalid format", name)
    ELSE IF c.config.kind = "absent"
    THEN Skipped("WARNING", "no config.json found", name)
    ELSE IF c.config.kind = "undecodable"
    THEN Skipped("ERROR", "error parsing config.json", name)
    ELSE IF c.config.kind = "scalar"           \* `in` raises TypeError
    THEN Skipped("ERROR", "error processing", name)
    ELSE IF ~HasRequired(c.config)
    THEN Skipped("WARNING", "missing required fields", name)
    ELSE IF ~StrptimeOK(date_str(name))
    THEN Skipped("WARNING", "invalid date format", name)
    ELSE IF c.config.kind = "array"            \* .get raises AttributeError
    THEN Skipped("ERROR", "error processing", name)
    ELSE LET p == ResolvePhoto(name, c)
         IN IF p.raised THEN Skipped("ERROR", "error processing", name)
            ELSE [recs |-> <<bubble_data(name, c.config, p.photo, n)>>,
                  msgs |-> p.msgs \o <<Msg("SUCCESS", "added", name)>>]

\* ------------------------------------------------------ timeline position

\* i / max(1, len(bubbles)): the divisor without its "- 1".
timeline_progress_off_by_one(i, n) == [num |-> i, den |-> Max2(1, n)]

\* i / max(1, len(bubbles) - 1), i counted from 0, as a fraction
timeline_progress(i, n) == [num |-> i, den |-> Max2(1, n - 1)]

\* 10 + (timeline_progress * 80)
TimelineX(i, n) ==
    LET p == timeline_progress(i, n) IN [num |-> 10 * p.den + 80 * p.num, den |-> p.den]

\* ------------------------------------------------------------ the inputs

Asc2(n) == <<48 + (n \div 10), 48 + (n % 10)>>

Asc4(n) == <<48 + (n \div 1000), 48 + ((n \div 100) % 10),
             48 + ((n \div 10) % 10), 48 + (n % 10)>>

\* the same number written with Arabic-Indic digits
Arab2(n) == <<1632 + (n \div 10), 1632 + (n % 10)>>

Arab4(n) == <<1632 + (n \div 1000), 1632 + ((n \div 100) % 10),
              1632 + ((n \div 10) % 10), 1632 + (n % 10)>>

\* A folder name of the form YYYY-MM-DDTHH-MM-SS from its six fields
Stamp(y, mo, d, h, mi, s) ==
    y \o <<45>> \o mo \o <<45>> \o d \o <<84>> \o h \o <<45>> \o mi \o <<45>> \o s

NameNonLeap == Stamp(Asc4(2023), Asc2(2), Asc2(29), Asc2(0), Asc2(0), Asc2(0))

NameA == Stamp(Asc4(2023), Asc2(12), Asc2(31), Asc2(23), Asc2(59), Asc2(59))

NameB == Stamp(Asc4(2024), Asc2(2), Asc2(29), Asc2(0), Asc2(0), Asc2(0))

\* "notes"
NameNotes == <<110, 111, 116, 101, 115>>

\* the year 2022 in Arabic-Indic digits, the rest in ASCII
NameArabYear == Stamp(Arab4(2022), Asc2(6), Asc2(15), Asc2(12), Asc2(30), Asc2(0))

\* The folder names of the scans of several folders
FolderNames == {NameNonLeap, NameA, NameB, NameNotes, NameArabYear}

\* The folder names of the scans of one folder: the edges of the date
EdgeNames ==
    FolderNames \cup
    { Stamp(Asc4(2024), Asc2(13), Asc2(1), Asc2(0), Asc2(0), Asc2(0)),
      Stamp(Asc4(2024), Asc2(0), Asc2(10), Asc2(0), Asc2(0), Asc2(0)),
      Stamp(Asc4(2024), Asc2(4), Asc2(31), Asc2(0), Asc2(0), Asc2(0)),
      Stamp(Asc4(2024), Asc2(4), Asc2(0), Asc2(0), Asc2(0), Asc2(0)),
      Stamp(Asc4(2024), Asc2(1), Asc2(32), Asc2(0), Asc2(0), Asc2(0)),
      Stamp(Asc4(1900), Asc2(2), Asc2(29), Asc2(0), Asc2(0), Asc2(0)),
      Stamp(Asc4(2000), Asc2(2), Asc2(29), Asc2(0), Asc2(0), Asc2(0)),
      Stamp(Asc4(0), Asc2(1), Asc2(1), Asc2(0), Asc2(0), Asc2(0)),
      Stamp(Asc4(1), Asc2(1), Asc2(1), Asc2(0), Asc2(0), Asc2(0)),
      Stamp(Asc4(2024), Asc2(1), Asc2(1), Asc2(24), Asc2(0), Asc2(0)),
      Stamp(Asc4(2024), Asc2(1), Asc2(1), Asc2(0), Asc2(60), Asc2(0)),
      Stamp(Asc4(2024), Asc2(1), Asc2(1), Asc2(0), Asc2(0), Asc2(60)),
      Stamp(Asc4(2024), Asc2(1), Asc2(1), Asc2(0), Asc2(0), Asc2(62)),
      Stamp(Asc4(2024), Arab2(1), Asc2(1), Asc2(0), Asc2(0), Asc2(0)),
      Stamp(Asc4(2024), Asc2(1), <<49, 1634>>, Asc2(0), Asc2(0), Asc2(0)),
      Stamp(Asc4(2024), Asc2(1), <<48, 1634>>, Asc2(0), Asc2(0), Asc2(0)),
      Stamp(Asc4(2024), Asc2(1), Asc2(1), Asc2(0), Arab2(7), Asc2(0)),
      NameA \o <<10>>,
      NameA \o <<48>>,
      [i \in 1..19 |-> IF i = 11 THEN 116 ELSE NameA[i]] }

\* A function from its graph, a set of <<key, value>> pairs
FieldsOf(S) == [k \in {p[1] : p \in S} |-> (CHOOSE p \in S : p[1] = k)[2]]

Folder(cfg, files) == [config |-> cfg, files |-> files]

PhotoFiles == {"image.jpg", "photo.JPG"}

FullFields ==
    {<<"title", PyStr("Trip")>>, <<"description", PyStr("A day out")>>,
     <<"location", PyStr("Rome")>>}

\* What a folder of a scan of several folders holds
CoreContents ==
    { Folder(CfgAbsent, {}),
      Folder(CfgUndecodable, {}),
      Folder(CfgArray(required_fields), {}),
      Folder(CfgObject(FieldsOf({<<"title", PyStr("Trip")>>,
                                 <<"has_photo", PyStr("True")>>})), PhotoFiles),
      Folder(CfgObject(FieldsOf(FullFields \cup {<<"has_photo", PyStr("False")>>})),
             PhotoFiles),
      Folder(CfgObject(FieldsOf(FullFields \cup {<<"has_photo", PyStr("True")>>})),
             PhotoFiles),
      Folder(CfgObject(FieldsOf(FullFields \cup {<<"has_photo", PyStr("True")>>,
                                                 <<"photo", PyStr("p.png")>>})), {}),
      Folder(CfgObject(FieldsOf(FullFields \cup {<<"has_photo", PyStr("True")>>,
                                                 <<"photo", PyNum("5")>>})), {}) }

\* Every config.json over the five keys, and the files beside it
AllObjects ==
    { CfgObject(FieldsOf(t \cup d \cup h \cup p \cup l)) :
        t \in {{}, {<<"title", PyStr("Trip")>>}},
        d \in {{}, {<<"description", PyStr("A day out")>>}},
        h \in {{}, {<<"has_photo", PyStr("True")>>}, {<<"has_photo", PyTrue>>},
               {<<"has_photo", PyStr("False")>>}},
        p \in {{}, {<<"photo", PyStr("")>>}, {<<"photo", PyStr("p.png")>>},
               {<<"photo", PyNone>>}, {<<"photo", PyNum("5")>>}},
        l \in {{}, {<<"location", PyStr("Rome")>>}} }

AllConfigs ==
    AllObjects \cup {CfgAbsent, CfgUndecodable, CfgScalar, CfgArray({}),
                     CfgArray(required_fields)}

AllFiles ==
    { {}, {"p.png"}, PhotoFiles, {"pic.jpg", "photo.jpeg"},
      {"photo.png", "picture.JPEG", "p.png"} }

AllContents == {Folder(cfg, files) : cfg \in AllConfigs, files \in AllFiles}

OutAbsent == [state |-> "absent", data |-> <<>>]

OutOld == [state |-> "old", data |-> <<>>]

\* ------------------------------------------------------------------- Init

ServerIdle ==
    /\ spc = "off" /\ platform = "linux" /\ sock = "none"
    /\ slog = <<>> /\ bindError = "none" /\ served = 0 /\ interrupts = 0

ScanIdle ==
    /\ dirExists = FALSE /\ fs = <<>> /\ outFile = OutAbsent /\ pc = "off"
    /\ folders = <<>> /\ idx = 0 /\ bubbles = <<>> /\ log = <<>>

\* main() is about to run in a working directory holding at most maxN
\* folders under bubbles/ (or no bubbles/ at all).
ScanInit(Names, Contents, maxN, Outs) ==
    /\ pc = "scan" /\ folders = <<>> /\ idx = 0 /\ bubbles = <<>> /\ log = <<>>
    /\ outFile \in Outs
    /\ \E S \in {T \in SUBSET Names : Cardinality(T) <= maxN} : fs \in [S -> Contents]
    /\ dirExists \in BOOLEAN
    /\ (~dirExists => DOMAIN fs = {})
    /\ ServerIdle

\* Up to MaxFolders folders of the common kinds, or one folder of any name
\* and content.
Init ==
    \/ ScanInit(FolderNames, CoreContents, MaxFolders, {OutAbsent, OutOld})
    \/ ScanInit(EdgeNames, AllContents, 1, {OutAbsent})

\* --------------------------------------------------- scan_bubbles_folder

\* lines 19-21
scan_bubbles_folder_not_found ==
    /\ pc = "scan" /\ ~dirExists
    /\ log' = Append(log, Msg("ERROR", "bubbles folder not found", <<>>))
    /\ pc' = "returned"
    /\ UNCHANGED <<serverVars, dirExists, fs, outFile, folders, idx, bubbles>>

\* lines 23-30
scan_bubbles_folder_list ==
    /\ pc = "scan" /\ dirExists
    /\ folders' = SortFolders(DOMAIN fs)
    /\ idx' = 1
    /\ log' = Append(log, Msg("INFO", "found folders", <<>>))
    /\ pc' = "loop"
    /\ UNCHANGED <<serverVars, dirExists, fs, outFile, bubbles>>

\* The id taken from the position in the folder list (enumerate) instead of
\* len(bubbles).
scan_bubbles_folder_step_enumerate_id ==
    /\ pc = "loop" /\ idx <= Len(folders)
    /\ LET r == ProcessFolder(folders[idx], fs[folders[idx]], idx - 1)
       IN /\ bubbles' = bubbles \o r.recs
          /\ log' = log \o r.msgs
    /\ idx' = idx + 1
    /\ UNCHANGED <<serverVars, dirExists, fs, outFile, pc, folders>>

\* one iteration of the for loop, lines 32-122
scan_bubbles_folder_step ==
    /\ pc = "loop" /\ idx <= Len(folders)
    /\ LET r == ProcessFolder(folders[idx], fs[folders[idx]], Len(bubbles))
       IN /\ bubbles' = bubbles \o r.recs
          /\ log' = log \o r.msgs
    /\ idx' = idx + 1
    /\ UNCHANGED <<serverVars, dirExists, fs, outFile, pc, folders>>

\* line 124
scan_bubbles_folder_return ==
    /\ pc = "loop" /\ idx > Len(folders)
    /\ pc' = "returned"
    /\ UNCHANGED <<serverVars, dirExists, fs, outFile, folders, idx, bubbles, log>>

\* ---------------------------------------------------- calculate_positions

\* lines 130-131
calculate_positions_empty ==
    /\ pc = "calc_entry" /\ bubbles = <<>>
    /\ pc' = "calc_done"
    /\ UNCHANGED <<serverVars, dirExists, fs, outFile, folders, idx, bubbles, log>>

\* line 133, entering the loop
calculate_positions_enter ==
    /\ pc = "calc_entry" /\ bubbles # <<>>
    /\ pc' = "calc" /\ idx' = 1
    /\ UNCHANGED <<serverVars, dirExists, fs, outFile, folders, bubbles, log>>

\* lines 133-135, one iteration
calculate_positions_step ==
    /\ pc = "calc" /\ idx <= Len(bubbles)
    /\ bubbles' = [bubbles EXCEPT ![idx].x = TimelineX(idx - 1, Len(bubbles))]
    /\ idx' = idx + 1
    /\ UNCHANGED <<serverVars, dirExists, fs, outFile, pc, folders, log>>

\* line 137
calculate_positions_return ==
    /\ pc = "calc" /\ idx > Len(bubbles)
    /\ pc' = "calc_done"
    /\ UNCHANGED <<serverVars, dirExists, fs, outFile, folders, idx, bubbles, log>>

\* ------------------------------------------------------------------- main

\* main without the "if not bubbles: return" of lines 166-168.
main_no_bubbles_falls_through ==
    /\ pc = "returned" /\ bubbles = <<>>
    /\ pc' = "calc_done"
    /\ UNCHANGED <<serverVars, dirExists, fs, outFile, folders, idx, bubbles, log>>

\* lines 166-168
main_no_bubbles ==
    /\ pc = "returned" /\ bubbles = <<>>
    /\ log' = Append(log, Msg("ERROR", "no valid bubbles found", <<>>))
    /\ pc' = "done"
    /\ UNCHANGED <<serverVars, dirExists, fs, outFile, folders, idx, bubbles>>

\* line 171
main_positions ==
    /\ pc = "returned" /\ bubbles # <<>>
    /\ pc' = "calc_entry"
    /\ UNCHANGED <<serverVars, dirExists, fs, outFile, folders, idx, bubbles, log>>

\* lines 143-150 and 174-183: the file is opened and the whole list dumped
generate_bubbles_json_ok ==
    /\ pc = "calc_done"
    /\ outFile' = [state |-> "written", data |-> bubbles]
    /\ log' = log \o <<Msg("SUCCESS", "generated bubbles.json", <<>>),
                       Msg("SUCCESS", "bubbles.json is ready", <<>>)>>
    /\ pc' = "done"
    /\ UNCHANGED <<serverVars, dirExists, fs, folders, idx, bubbles>>

\* lines 145, 151-153 and 185: open() raises, the file is not touched
generate_bubbles_json_open_fails ==
    /\ pc = "calc_done"
    /\ log' = log \o <<Msg("ERROR", "error generating bubbles.json", <<>>),
                       Msg("ERROR", "failed to generate bubbles.json", <<>>)>>
    /\ pc' = "done"
    /\ UNCHANGED <<serverVars, dirExists, fs, outFile, folders, idx, bubbles>>

\* lines 146, 151-153 and 185: open() has truncated the file and a write of
\* json.dump raises
generate_bubbles_json_dump_fails ==
    /\ pc = "calc_done"
    /\ outFile' = [state |-> "partial", data |-> <<>>]
    /\ log' = log \o <<Msg("ERROR", "error generating bubbles.json", <<>>),
                       Msg("ERROR", "failed to generate bubbles.json", <<>>)>>
    /\ pc' = "done"
    /\ UNCHANGED <<serverVars, dirExists, fs, folders, idx, bubbles>>

\* A list calculate_positions is called with: n records as the scan builds
\* them.
SampleConfig == CfgObject(FieldsOf(FullFields \cup {<<"has_photo", PyStr("False")>>}))

SampleList(n) == [i \in 1..n |-> bubble_data(NameA, SampleConfig, PhotoNone, i - 1)]

PosInit ==
    /\ dirExists = TRUE /\ fs = <<>> /\ outFile = OutAbsent
    /\ folders = <<>> /\ idx = 0 /\ log = <<>>
    /\ pc = "calc_entry"
    /\ bubbles \in {SampleList(n) : n \in 0..MaxBubbles}
    /\ ServerIdle

\* ----------------------------------------------------------- start_server

PORT == 8000

Platforms == {"linux", "darwin", "win32"}

\* The errno of an OSError, which the operating system chooses: EADDRINUSE
\* is 98 on Linux, 48 on macOS and the BSDs, 10048 (WSAEADDRINUSE) on Windows.
Errno(p, err) ==
    CASE err = "EADDRINUSE" ->
             (IF p = "linux" THEN 98 ELSE IF p = "darwin" THEN 48 ELSE 10048)
      [] err = "EACCES" -> (IF p = "win32" THEN 10013 ELSE 13)
      [] OTHER -> 9

SMsg(kind) == [kind |-> kind, port |-> PORT]

\* lines 57-62
HandleOSError(errno) ==
    IF errno = 98
    THEN <<SMsg("port is already in use"), SMsg("try closing other applications")>>
    ELSE <<SMsg("error starting server")>>

ServerInit ==
    /\ ScanIdle
    /\ spc = "start" /\ platform \in Platforms /\ sock = "none"
    /\ slog = <<>> /\ bindError = "none" /\ served = 0 /\ interrupts = 0

\* line 23: the socket is bound and listens
start_server_bind ==
    /\ spc = "start"
    /\ sock' = "open" /\ spc' = "banner"
    /\ UNCHANGED <<scanVars, platform, slog, bindError, served, interrupts>>

\* line 23 raises OSError; lines 57-62 report it and start_server returns
start_server_bind_fails ==
    /\ spc = "start"
    /\ \E err \in {"EADDRINUSE", "EACCES"} :
          /\ bindError' = err
          /\ slog' = slog \o HandleOSError(Errno(platform, err))
    /\ spc' = "exited"
    /\ UNCHANGED <<scanVars, platform, sock, served, interrupts>>

\* lines 24-42
start_server_banner ==
    /\ spc = "banner"
    /\ slog' = Append(slog, SMsg("server running"))
    /\ spc' = "browser"
    /\ UNCHANGED <<scanVars, platform, sock, bindError, served, interrupts>>

\* lines 45-47 and 52: webbrowser.open returns
start_server_browser_opened ==
    /\ spc = "browser"
    /\ slog' = Append(slog, SMsg("browser opened"))
    /\ spc' = "serving"
    /\ UNCHANGED <<scanVars, platform, sock, bindError, served, interrupts>>

\* lines 45-52: webbrowser.open raises an Exception, the bare except takes it
start_server_browser_fails ==
    /\ spc = "browser"
    /\ slog' = Append(slog, SMsg("could not open browser"))
    /\ spc' = "serving"
    /\ UNCHANGED <<scanVars, platform, sock, bindError, served, interrupts>>

\* line 53: serve_forever handles one request
serve_forever_request ==
    /\ spc = "serving" /\ served < MaxRequests
    /\ served' = served + 1
    /\ UNCHANGED <<scanVars, spc, platform, sock, slog, bindError, interrupts>>

\* line 53 raises OSError: the with statement closes the socket, lines 57-62
serve_forever_fails ==
    /\ spc = "serving"
    /\ sock' = "closed"
    /\ slog' = slog \o HandleOSError(Errno(platform, "EBADF"))
    /\ spc' = "exited"
    /\ UNCHANGED <<scanVars, platform, bindError, served, interrupts>>

\* KeyboardInterrupt while TCPServer is constructed: lines 55-56
interrupt_before_bind ==
    /\ spc = "start"
    /\ interrupts' = interrupts + 1
    /\ slog' = Append(slog, SMsg("server stopped"))
    /\ spc' = "stopped"
    /\ UNCHANGED <<scanVars, platform, sock, bindError, served>>

\* KeyboardInterrupt inside the with block and outside the inner try (lines
\* 24-42, 52-53): the with statement closes the socket, lines 55-56
interrupt_server ==
    /\ spc \in {"banner", "serving"}
    /\ interrupts' = interrupts + 1
    /\ sock' = "closed"
    /\ slog' = Append(slog, SMsg("server stopped"))
    /\ spc' = "stopped"
    /\ UNCHANGED <<scanVars, platform, bindError, served>>

\* KeyboardInterrupt inside the inner try (lines 45-47): the bare except of
\* line 48 takes it, lines 49-50 print and the function goes on to line 53
interrupt_browser ==
    /\ spc = "browser"
    /\ interrupts' = interrupts + 1
    /\ slog' = Append(slog, SMsg("could not open browser"))
    /\ spc' = "serving"
    /\ UNCHANGED <<scanVars, platform, sock, bindError, served>>

\* ------------------------------------------------------ the specifications

Next ==
    \/ scan_bubbles_folder_not_found \/ scan_bubbles_folder_list \/ scan_bubbles_folder_step \/ scan_bubbles_folder_return
    \/ main_no_bubbles \/ main_positions
    \/ calculate_positions_enter \/ calculate_positions_step \/ calculate_positions_return
    \/ generate_bubbles_json_ok \/ generate_bubbles_json_open_fails \/ generate_bubbles_json_dump_fails

\* main() of scan_bubbles.py
Spec == Init /\ [][Next]_vars

PosNext == calculate_positions_empty \/ calculate_positions_enter \/ calculate_positions_step \/ calculate_positions_return

\* calculate_positions on a list of up to MaxBubbles records
PosSpec == PosInit /\ [][PosNext]_vars

ServerNext ==
    \/ start_server_bind \/ start_server_bind_fails \/ start_server_banner \/ start_server_browser_opened \/ start_server_browser_fails
    \/ serve_forever_request \/ serve_forever_fails
    \/ interrupt_before_bind \/ interrupt_server \/ interrupt_browser

\* start_server() on one of the platforms
ServerSpec == ServerInit /\ [][ServerNext]_vars

\* ================================================================ claims

\* scan_bubbles_folder has returned
ScanDone == pc \in {"returned", "calc_entry", "calc", "calc_done", "done"}

\* The positions of the records made for a folder
RecordsOf(name) == {i \in 1..Len(bubbles) : bubbles[i].folderName = name}

\* The ISO timestamp a name YYYY-MM-DDTHH-MM-SS denotes: its digits by their
\* values, the two separators of the time as colons.
DenotedTimestamp(name) ==
    [i \in 1..19 |->
        IF i \in {14, 17} THEN 58
        ELSE IF IsDigit(name[i]) THEN 48 + DigitVal(name[i]) ELSE name[i]]

FieldVal(name, p) == 10 * DigitVal(name[p]) + DigitVal(name[p + 1])

YearVal(name) == 100 * FieldVal(name, 1) + FieldVal(name, 3)

\* The name is exactly YYYY-MM-DDTHH-MM-SS, the digits after the year are
\* ASCII, and the fields are a date and a time that exist.
RealDateTime(name) ==
    /\ Len(name) = 19
    /\ \A p \in 1..4 : IsDigit(name[p])
    /\ \A p \in DigitPositions \ (1..4) : name[p] \in 48..57
    /\ name[5] = 45 /\ name[8] = 45 /\ name[11] = 84
    /\ name[14] = 45 /\ name[17] = 45
    /\ YearVal(name) >= 1
    /\ FieldVal(name, 6) \in 1..12
    /\ FieldVal(name, 9) \in 1..DaysInMonth(YearVal(name), FieldVal(name, 6))
    /\ FieldVal(name, 12) <= 23
    /\ FieldVal(name, 15) <= 59
    /\ FieldVal(name, 18) <= 59

\* config.json is a JSON object with the three required keys
CompleteConfig(c) ==
    /\ c.config.kind = "object"
    /\ {"title", "description", "has_photo"} \subseteq DOMAIN c.config.fields

\* has_photo is not "True", or photo is missing, falsy or a string
PhotoUsable(c) ==
    \/ c.config.fields["has_photo"] # [t |-> "str", v |-> "True"]
    \/ "photo" \notin DOMAIN c.config.fields
    \/ c.config.fields["photo"].t \in {"str", "null"}

OneRecordWithTimestamp(name) ==
    /\ Cardinality(RecordsOf(name)) = 1
    /\ \A i \in RecordsOf(name) :
          /\ bubbles[i].rawDate = DenotedTimestamp(name)
          /\ bubbles[i].date = name
          /\ bubbles[i].folderName = name

\* C1 as stated: every folder whose name matches the pattern and whose
\* config.json is valid JSON with title, description and has_photo yields
\* exactly one record, whose rawDate is the timestamp the name denotes and
\* whose date and folderName are the name.
C1_PatternAndConfigGiveRecord ==
    (ScanDone /\ dirExists) =>
        \A name \in DOMAIN fs :
            (MatchesFormat(name) /\ CompleteConfig(fs[name]))
                => OneRecordWithTimestamp(name)

\* C1 amended: every folder whose name is YYYY-MM-DDTHH-MM-SS for a date and
\* time that exist (ASCII digits after the year), whose config.json is a JSON
\* object with title, description and has_photo, and whose photo value is
\* usable, yields exactly one record, whose rawDate is the timestamp the name
\* denotes and whose date and folderName are the name.
C1_RealDateAndConfigGiveRecord ==
    (ScanDone /\ dirExists) =>
        \A name \in DOMAIN fs :
            (RealDateTime(name) /\ CompleteConfig(fs[name]) /\ PhotoUsable(fs[name]))
                => OneRecordWithTimestamp(name)

\* C1's case: a scan of two or more folders has returned, one of them named
\* with a non-ASCII year and a complete config, and it has its record.
C1_Witness ==
    /\ ScanDone /\ dirExists /\ Len(folders) >= 2
    /\ \E name \in DOMAIN fs :
          /\ RealDateTime(name) /\ CompleteConfig(fs[name]) /\ PhotoUsable(fs[name])
          /\ name[1] \notin 48..57
          /\ RecordsOf(name) # {}

\* config.json parses and lacks one of the three required keys (a bare number
\* holds no key at all)
LacksRequired(c) ==
    \/ /\ c.config.kind = "object"
       /\ ~({"title", "description", "has_photo"} \subseteq DOMAIN c.config.fields)
    \/ /\ c.config.kind = "array"
       /\ ~({"title", "description", "has_photo"} \subseteq c.config.items)
    \/ c.config.kind = "scalar"

FracLeq(a, b) == a.num * b.den <= b.num * a.den

FracIs(a, n) == a.num = n * a.den

\* C3: after calculate_positions on two or more records the x values do not
\* decrease along the list, the first is 10, the last is 90 and all lie in
\* [10, 90].
C3_PositionsSpan ==
    (pc = "calc_done" /\ Len(bubbles) >= 2) =>
        /\ \A i \in 1..(Len(bubbles) - 1) : FracLeq(bubbles[i].x, bubbles[i + 1].x)
        /\ FracIs(bubbles[1].x, 10)
        /\ FracIs(bubbles[Len(bubbles)].x, 90)
        /\ \A i \in 1..Len(bubbles) :
              /\ 10 * bubbles[i].x.den <= bubbles[i].x.num
              /\ bubbles[i].x.num <= 90 * bubbles[i].x.den

\* C3's case: calculate_positions has returned a list of four or more
\* records, with a record strictly between 10 and 90.
C3_Witness ==
    /\ pc = "calc_done" /\ Len(bubbles) >= 4
    /\ \E i \in 1..Len(bubbles) :
          /\ ~FracIs(bubbles[i].x, 10) /\ ~FracIs(bubbles[i].x, 90)
          /\ ~FracIs(bubbles[i].x, 50)

\* C4: the k-th record (from 0) has id "bubble-k" and the records are in
\* ascending order of folder name, so the ids are unique and consecutive
\* from 0 whatever was skipped.
C4_IdsInFolderOrder ==
    /\ \A k \in 1..Len(bubbles) : bubbles[k].id = "bubble-" \o ToString(k - 1)
    /\ \A i, j \in 1..Len(bubbles) :
          i < j => /\ StrLess(bubbles[i].folderName, bubbles[j].folderName)
                   /\ bubbles[i].id # bubbles[j].id

\* C4's case: two records whose folders have a skipped folder between them.
C4_Witness ==
    /\ ScanDone /\ Len(bubbles) = 2 /\ Len(folders) = 3
    /\ bubbles[1].folderName = folders[1]
    /\ bubbles[2].folderName = folders[3]

\* A folder that yields a record
Yields(name, c) == ProcessFolder(name, c, 0).recs # <<>>

\* scan_bubbles_folder over the folders f holds, as one function
RECURSIVE ScanFrom(_, _, _, _)
ScanFrom(f, names, i, acc) ==
    IF i > Len(names) THEN acc
    ELSE ScanFrom(f, names, i + 1,
                  acc \o ProcessFolder(names[i], f[names[i]], Len(acc)).recs)

ScanOnlyValid ==
    LET V == {name \in DOMAIN fs : Yields(name, fs[name])}
        g == [name \in V |-> fs[name]]
    IN ScanFrom(g, SortedSeq(V), 1, <<>>)

\* C5: every folder of the directory is handled (a line is printed for it)
\* whatever was skipped before it, and the list returned is the list a scan
\* of only the folders that yield a record returns.
C5_SkipsDoNotAbort ==
    (pc = "returned" /\ dirExists) =>
        /\ idx = Len(folders) + 1
        /\ \A name \in DOMAIN fs : \E k \in 1..Len(log) : log[k].folder = name
        /\ bubbles = ScanOnlyValid

\* C5's case: the scan has returned, its first folder was skipped and a
\* later one has its record.
C5_Witness ==
    /\ pc = "returned" /\ dirExists /\ Len(folders) = 3
    /\ ~Yields(folders[1], fs[folders[1]])
    /\ ~Yields(folders[2], fs[folders[2]])
    /\ RecordsOf(folders[3]) # {}

\* C8 as stated: the records are in chronological order, an earlier record
\* has a strictly earlier rawDate (ISO timestamps of four digit years order
\* as their strings do).
C8_Chronological ==
    \A i, j \in 1..Len(bubbles) :
        i < j => StrLess(bubbles[i].rawDate, bubbles[j].rawDate)

\* The candidate files in the order the loops try them: by extension, then
\* by name
CandidateRank(file) ==
    CHOOSE r \in 1..(Len(photo_extensions) * Len(possible_names)) :
        \E e \in 1..Len(photo_extensions), n \in 1..Len(possible_names) :
            /\ r = (e - 1) * Len(possible_names) + n
            /\ file = possible_names[n] \o photo_extensions[e]

Candidates ==
    {possible_names[n] \o photo_extensions[e] :
        n \in 1..Len(possible_names), e \in 1..Len(photo_extensions)}

NullPhoto(r) == r.photo.t = "null"

PhotoIs(r, file) ==
    r.photo = [t |-> "str", dir |-> "bubbles", folder |-> r.folderName, file |-> file]

PhotoResolved(r, c) ==
    LET f == c.config.fields
        flag == "has_photo" \in DOMAIN f /\ f["has_photo"] = [t |-> "str", v |-> "True"]
        named == "photo" \in DOMAIN f /\ f["photo"].t = "str" /\ f["photo"].v # ""
        existing == Candidates \cap c.files
    IN /\ r.hasPhoto = flag
       /\ ~r.hasPhoto => NullPhoto(r)
       /\ (r.hasPhoto /\ named) => PhotoIs(r, f["photo"].v)
       /\ (r.hasPhoto /\ ~named /\ existing = {}) => NullPhoto(r)
       /\ (r.hasPhoto /\ ~named /\ existing # {}) =>
             \E file \in existing :
                 /\ PhotoIs(r, file)
                 /\ \A g \in existing : CandidateRank(file) <= CandidateRank(g)

\* C9: in every record hasPhoto is true exactly when has_photo is the string
\* "True"; photo is null when hasPhoto is false; with a non-empty photo named
\* it is bubbles/<folder>/<photo> whether the file exists or not; with none
\* named it is the first existing candidate, extensions outside and names
\* inside, or null.
C9_PhotoResolution ==
    \A i \in 1..Len(bubbles) : PhotoResolved(bubbles[i], fs[bubbles[i].folderName])

\* C9's case: a record whose photo was found by the search although a file
\* of an earlier name and a later extension exists, in a scan that also has
\* a record with a named photo that does not exist.
C9_Witness ==
    \E i \in 1..Len(bubbles) :
        /\ bubbles[i].hasPhoto
        /\ bubbles[i].photo.file = "image.jpg"
        /\ "photo.JPG" \in fs[bubbles[i].folderName].files
        /\ \E j \in 1..Len(bubbles) :
              /\ bubbles[j].hasPhoto
              /\ bubbles[j].photo.file = "p.png"
              /\ "p.png" \notin fs[bubbles[j].folderName].files

\* The folders that yield a record, in the order of the scan
YieldingFolders ==
    SelectSeq(SortedSeq(DOMAIN fs), LAMBDA name : Yields(name, fs[name]))

\* C10: bubbles.json changes only when the scan gave at least one record,
\* and a complete write leaves in it every record of the scan, in scan
\* order, with its position computed.
C10_WrittenOnlyWithRecords ==
    [][outFile' # outFile =>
          /\ bubbles # <<>>
          /\ outFile'.state = "written" =>
                /\ outFile'.data = bubbles
                /\ Len(bubbles) = Len(YieldingFolders)
                /\ \A i \in 1..Len(bubbles) :
                      /\ bubbles[i].folderName = YieldingFolders[i]
                      /\ bubbles[i].x.num * Max2(1, Len(bubbles) - 1)
                           = (10 * Max2(1, Len(bubbles) - 1) + 80 * (i - 1))
                             * bubbles[i].x.den]_vars

\* C10's case: main has ended after a scan that skipped every folder, and
\* the bubbles.json that existed is as it was.
C10_Witness ==
    /\ pc = "done" /\ dirExists /\ Len(folders) >= 2 /\ bubbles = <<>>
    /\ outFile = OutOld

\* C6 as stated: a bind that fails because the port is in use prints the
\* port-in-use message and not the generic one; any other error prints the
\* generic message; either way the server never serves.
C6_PortInUseReported ==
    /\ bindError = "EADDRINUSE" =>
          /\ \E k \in 1..Len(slog) : slog[k].kind = "port is already in use"
          /\ \A k \in 1..Len(slog) : slog[k].kind # "error starting server"
    /\ bindError = "EACCES" =>
          \E k \in 1..Len(slog) : slog[k].kind = "error starting server"
    /\ bindError # "none" => (spc = "exited" /\ sock = "none" /\ served = 0)

\* C7 as stated: once the socket is bound, a KeyboardInterrupt stops the
\* server (socket closed, goodbye printed), and the server leaves the serving
\* state only by an interrupt or an error.
C7_InterruptStops ==
    [][/\ (interrupts' = interrupts + 1 /\ sock = "open") =>
             /\ spc' = "stopped" /\ sock' = "closed"
             /\ slog'[Len(slog')].kind = "server stopped"
       /\ (spc = "serving" /\ spc' # "serving") =>
             (interrupts' = interrupts + 1 \/ spc' = "exited")]_vars

====
